---- MODULE Spec2Model ----
(***************************************************************************)
(* Model of camilladsp/camilladsp.py: the CamillaConnection session (one   *)
(* websocket handle guarded by a Lock), the _query exchange with its reply *)
(* parsing and classification, and connect / disconnect / is_connected.    *)
(* Text is modelled as sequences of one-character strings so that split,   *)
(* lower and format are computed as the code computes them.                *)
(***************************************************************************)
EXTENDS Integers, Sequences, FiniteSets, TLC

\* ------------------------------------------------------------------ bounds
NThreads == 2
MaxSocks == 2

Threads == 1..NThreads
Socks == 1..MaxSocks

\* ------------------------------------------------------------ text helpers
None == <<>>
Some(x) == <<x>>

Colon == ":"
Dot == "."

UpperChars == <<"A","B","C","D","E","F","G","H","I","J","K","L","M",
                "N","O","P","Q","R","S","T","U","V","W","X","Y","Z">>
LowerChars == <<"a","b","c","d","e","f","g","h","i","j","k","l","m",
                "n","o","p","q","r","s","t","u","v","w","x","y","z">>

\* str.lower() on one character
LowerChar(c) ==
  IF \E i \in 1..26 : UpperChars[i] = c
  THEN LowerChars[CHOOSE i \in 1..26 : UpperChars[i] = c]
  ELSE c

\* str.lower()
Lower(s) == [i \in 1..Len(s) |-> LowerChar(s[i])]

\* index of the first occurrence of sep in s, 0 when there is none
FirstIndex(s, sep) ==
  IF \E i \in 1..Len(s) : s[i] = sep
  THEN CHOOSE i \in 1..Len(s) : s[i] = sep /\ \A j \in 1..(i-1) : s[j] # sep
  ELSE 0

\* str.split(sep, maxsplit): at most maxsplit+1 parts, the last one verbatim
RECURSIVE Split(_, _, _)
Split(s, sep, maxsplit) ==
  IF maxsplit = 0 \/ FirstIndex(s, sep) = 0
  THEN <<s>>
  ELSE LET i == FirstIndex(s, sep)
       IN <<SubSeq(s, 1, i-1)>> \o Split(SubSeq(s, i+1, Len(s)), sep, maxsplit-1)

\* str(int) for the decimal digits of a natural number
DigitChars == <<"0","1","2","3","4","5","6","7","8","9">>
RECURSIVE FormatNat(_)
FormatNat(n) ==
  IF n < 10 THEN <<DigitChars[n+1]>>
  ELSE FormatNat(n \div 10) \o <<DigitChars[(n % 10) + 1]>>

\* "{}".format(arg) for the argument kinds the model uses
NoArg == [type |-> "none", i |-> 0, s |-> <<>>]
IntArg(n) == [type |-> "int", i |-> n, s |-> <<>>]
StrArg(str) == [type |-> "str", i |-> 0, s |-> str]
FormatArg(arg) ==
  IF arg.type = "int"
  THEN (IF arg.i < 0 THEN <<"-">> \o FormatNat(0 - arg.i) ELSE FormatNat(arg.i))
  ELSE arg.s

\* Python truthiness of the argument in "if arg:" (line 80)
Truthy(arg) ==
  \/ arg.type = "int" /\ arg.i # 0
  \/ arg.type = "str" /\ arg.s # <<>>

\* the request text built at lines 80-83
BuildQuery(command, arg) ==
  IF Truthy(arg) THEN command \o <<Colon>> \o FormatArg(arg) ELSE command

\* ------------------------------------------------------- protocol literals
sOK == <<"O","K">>
sERROR == <<"E","R","R","O","R">>
sInvalid == <<"i","n","v","a","l","i","d">>
sGetversion == <<"g","e","t","v","e","r","s","i","o","n">>
sStop == <<"s","t","o","p">>
sSetupdateinterval == <<"s","e","t","u","p","d","a","t","e","i","n","t","e","r","v","a","l">>

\* ------------------------------------------------------------- outcomes
\* what a call hands to its caller: a return value or a raised exception
Out(kind, msg, val) == [kind |-> kind, msg |-> msg, val |-> val, ver |-> None]
NoOut == Out("none", "", None)
Ret(val) == Out("ret", "", val)
RetBool(b) == Out("ret", IF b THEN "True" ELSE "False", None)
RetVersion(v) == [kind |-> "ret", msg |-> "", val |-> None, ver |-> v]
NotConnected == Out("IOError", "Not connected to CamillaDSP", None)
LostConnection == Out("IOError", "Lost connection to CamillaDSP", None)
InvalidResponse == Out("IOError", "Invalid response received", None)
OpenFailed == Out("IOError", "create_connection failed", None)
CamillaErrorMsg(payload) == Out("CamillaError", "payload", Some(payload))
CamillaErrorGeneric == Out("CamillaError", "Command returned an error", None)
IndexError == Out("IndexError", "list index out of range", None)
AttributeError == Out("AttributeError", "NoneType has no attribute", None)
SocketError == Out("WebSocketException", "send or recv failed", None)

\* _parse_response splitting on every ':' instead of the first two
ParseResponseFullSplit(resp) ==
  LET parts == Split(resp, Colon, Len(resp))
  IN IF Len(parts) < 2
     THEN [ok |-> FALSE, state |-> <<>>, command |-> <<>>, reply |-> None]
     ELSE [ok |-> TRUE, state |-> parts[1], command |-> Lower(parts[2]),
           reply |-> IF Len(parts) > 2 THEN Some(parts[3]) ELSE None]

\* _parse_response (lines 106-113); parts[1] of a one-part list raises
ParseResponse(resp) ==
  LET parts == Split(resp, Colon, 2)
  IN IF Len(parts) < 2
     THEN [ok |-> FALSE, state |-> <<>>, command |-> <<>>, reply |-> None]
     ELSE [ok |-> TRUE, state |-> parts[1], command |-> Lower(parts[2]),
           reply |-> IF Len(parts) > 2 THEN Some(parts[3]) ELSE None]

\* "if reply is not None:" in place of "if reply:"
ReplyPresent(reply) == reply # None

\* "if reply:" (lines 93, 97): a payload that is present and not empty
ReplyTruthy(reply) == reply # None /\ reply[1] # <<>>

\* the classification of a received reply in _query (lines 91-102)
QueryResult(command, rawrepl) ==
  LET p == ParseResponse(rawrepl)
  IN IF ~p.ok THEN IndexError
     ELSE IF p.state = sOK /\ p.command = Lower(command)
          THEN (IF ReplyTruthy(p.reply) THEN Ret(p.reply) ELSE Ret(None))
     ELSE IF p.state = sERROR /\ (p.command = Lower(command) \/ p.command = sInvalid)
          THEN (IF ReplyTruthy(p.reply) THEN CamillaErrorMsg(p.reply[1])
                ELSE CamillaErrorGeneric)
     ELSE InvalidResponse

\* ------------------------------------------------------ the engine's side
\* the wire format of a reply: STATUS:COMMAND or STATUS:COMMAND:PAYLOAD
Reply2(status, name) == status \o <<Colon>> \o name
Reply3(status, name, payload) == status \o <<Colon>> \o name \o <<Colon>> \o payload

\* str.upper(), the case the engine echoes command names in
UpperChar(c) ==
  IF \E i \in 1..26 : LowerChars[i] = c
  THEN UpperChars[CHOOSE i \in 1..26 : LowerChars[i] = c]
  ELSE c
Upper(s) == [i \in 1..Len(s) |-> UpperChar(s[i])]

sVers == <<"0",".","3",".","2">>
sLongVers == <<"1",".","2",".","3",".","4",".","5">>
sBad == <<"b","a","d">>
sOther == <<"O","T","H","E","R">>
sNonsense == <<"a","b","c">>

\* what recv() may hand back for a request whose command is c
RepliesFor(c) ==
  { Reply3(sOK, Upper(c), sVers),
    Reply2(sOK, Upper(c)),
    Reply2(sERROR, Upper(c)),
    Reply3(sERROR, Upper(sInvalid), sBad),
    Reply2(sOK, sOther),
    sNonsense,
    <<>> }

\* the façade calls of one caller: (command, argument)
SessionCalls ==
  { <<sStop, NoArg>>, <<sSetupdateinterval, IntArg(5)>> }

\* the façade call the concurrent callers make
ConcurrentCalls == { <<sStop, NoArg>> }

\* the commands the session sends: connect's getversion and those of calls
CommandsOf(calls) == { sGetversion } \cup { ca[1] : ca \in calls }

\* what recv() may hand one caller for each command: every reply of
\* RepliesFor, and for getversion a version of five components as well
SessionReplies ==
  [c \in CommandsOf(SessionCalls) |->
     RepliesFor(c) \cup (IF c = sGetversion THEN { Reply3(sOK, Upper(c), sLongVers) }
                         ELSE {})]

\* what recv() may hand concurrent callers: one reply of RepliesFor for each
\* outcome of _query (a value for getversion and no value for the others, a
\* Protocol Error, an invalid response, a reply that cannot be parsed)
ConcurrentReplies ==
  [c \in CommandsOf(ConcurrentCalls) |->
     { IF c = sGetversion THEN Reply3(sOK, Upper(c), sVers) ELSE Reply2(sOK, Upper(c)),
       Reply2(sERROR, Upper(c)),
       Reply2(sOK, sOther),
       sNonsense }]

\* ------------------------------------------------- numbers at line 152-169
\* int(text) (lines 152, 169): an optional sign followed by decimal digits
DigitValue(c) == (CHOOSE i \in 1..10 : DigitChars[i] = c) - 1
IsDigits(s) == s # <<>> /\ \A i \in 1..Len(s) : \E d \in 1..10 : DigitChars[d] = s[i]
RECURSIVE DigitsToNat(_)
DigitsToNat(s) ==
  IF s = <<>> THEN 0
  ELSE DigitsToNat(SubSeq(s, 1, Len(s) - 1)) * 10 + DigitValue(s[Len(s)])

ParseInt(s) ==
  IF IsDigits(s) THEN [ok |-> TRUE, i |-> DigitsToNat(s)]
  ELSE IF s # <<>> /\ s[1] = "-" /\ IsDigits(Tail(s))
       THEN [ok |-> TRUE, i |-> 0 - DigitsToNat(Tail(s))]
  ELSE IF s # <<>> /\ s[1] = "+" /\ IsDigits(Tail(s))
       THEN [ok |-> TRUE, i |-> DigitsToNat(Tail(s))]
  ELSE [ok |-> FALSE, i |-> 0]

\* ------------------------------------------- binary floating point (line 159)
\* a positive double is m * 2^e with m a natural number of at most
\* MantissaBits bits, kept as its bits, the lowest first
MantissaBits == 53

HexChars == <<"0","1","2","3","4","5","6","7","8","9","a","b","c","d","e","f">>
\* the four bits of a hexadecimal digit
Nibble(c) ==
  LET n == (CHOOSE i \in 1..16 : HexChars[i] = c) - 1
  IN <<n % 2, (n \div 2) % 2, (n \div 4) % 2, (n \div 8) % 2>>

\* the bits of a number written in hexadecimal, highest digit first
RECURSIVE HexBits(_)
HexBits(h) == IF h = <<>> THEN <<>> ELSE HexBits(Tail(h)) \o Nibble(h[1])

\* without the leading zero bits
RECURSIVE Trim(_)
Trim(b) == IF b # <<>> /\ b[Len(b)] = 0 THEN Trim(SubSeq(b, 1, Len(b) - 1)) ELSE b

\* b * k + carry, exactly
RECURSIVE MulSmall(_, _, _)
MulSmall(b, k, carry) ==
  IF b = <<>>
  THEN (IF carry = 0 THEN <<>> ELSE <<carry % 2>> \o MulSmall(<<>>, k, carry \div 2))
  ELSE LET v == b[1] * k + carry
       IN <<v % 2>> \o MulSmall(Tail(b), k, v \div 2)

RECURSIVE BitsToNat(_)
BitsToNat(b) == IF b = <<>> THEN 0 ELSE b[1] + 2 * BitsToNat(Tail(b))

RECURSIVE Increment(_)
Increment(b) ==
  IF b = <<>> THEN <<1>>
  ELSE IF b[1] = 0 THEN <<1>> \o Tail(b)
  ELSE <<0>> \o Increment(Tail(b))

Float(hex, e) == [m |-> Trim(HexBits(hex)), e |-> e]

\* the double nearest to bits * 2^e, ties to the even mantissa
RoundFloat(bits, e) ==
  LET b == Trim(bits)
      d == Len(b) - MantissaBits
  IN IF d <= 0 THEN [m |-> b, e |-> e]
     ELSE LET keep == SubSeq(b, d + 1, Len(b))
              rest == \E i \in 1..(d - 1) : b[i] = 1
              up == b[d] = 1 /\ (rest \/ keep[1] = 1)
          IN [m |-> IF up THEN Increment(keep) ELSE keep, e |-> e + d]

\* float * int: the int is converted exactly, the product is rounded once
FloatMulInt(f, n) == RoundFloat(MulSmall(f.m, n, 0), f.e)

\* the whole part of a double with e <= 0, and whether anything is left
FloatFloor(f) == BitsToNat(SubSeq(f.m, 1 - f.e, Len(f.m)))
FloatHasFraction(f) == \E i \in 1..(0 - f.e) : i <= Len(f.m) /\ f.m[i] = 1

\* int < float, compared exactly as Python compares them; float < int is
\* FloatFloor(float) < int
IntLessFloat(r, f) == r < FloatFloor(f) \/ (r = FloatFloor(f) /\ FloatHasFraction(f))

\* the literals 0.9 and 1.1 of line 159 as doubles
Float09 == Float(<<"1","c","c","c","c","c","c","c","c","c","c","c","c","d">>, 0 - 53)
Float11 == Float(<<"1","1","9","9","9","9","9","9","9","9","9","9","9","a">>, 0 - 52)

\* ---------------------------------------------------- the capture rate
standard_rates ==
  <<8000, 11025, 16000, 22050, 32000, 44100, 48000, 88200, 96000,
    176400, 192000, 352800, 384000>>

Abs(x) == IF x < 0 THEN 0 - x ELSE x

\* min(seq, key=lambda val: abs(val - rate)): the first of the elements
\* nearest to rate
MinByDistance(seq, rate) ==
  seq[CHOOSE i \in 1..Len(seq) :
        /\ \A j \in 1..Len(seq) : Abs(seq[i] - rate) <= Abs(seq[j] - rate)
        /\ \A j \in 1..(i-1) : Abs(seq[j] - rate) > Abs(seq[i] - rate)]

\* lines 159-162 of get_capture_rate on the raw rate
CaptureRate(rate) ==
  IF /\ FloatFloor(FloatMulInt(Float09, standard_rates[1])) < rate
     /\ IntLessFloat(rate, FloatMulInt(Float11, standard_rates[Len(standard_rates)]))
  THEN Some(MinByDistance(standard_rates, rate))
  ELSE None

\* ------------------------------------------------------------ documents
\* yaml.dump and yaml.safe_load (lines 233, 257) on the documents of the
\* model: mappings from plain keys to plain string values, block style, the
\* keys sorted
sEmptyFlow == <<"{","}","\n">>

\* a document: a mapping, a string, null, or the error of a text that is none
Doc(type, f, str) == [type |-> type, map |-> f, s |-> str]
MapDoc(f) == Doc("map", f, <<>>)
NullDoc == Doc("null", <<>>, <<>>)

DocKeys == << <<"a">>, <<"b">> >>
DocValues == { <<"x">>, <<"y","z">> }
Documents ==
  { MapDoc(f) : f \in UNION { [K -> DocValues] :
                              K \in SUBSET { DocKeys[i] : i \in 1..Len(DocKeys) } } }

RECURSIVE DumpKeys(_, _)
DumpKeys(f, i) ==
  IF i > Len(DocKeys) THEN <<>>
  ELSE (IF DocKeys[i] \in DOMAIN f
        THEN DocKeys[i] \o <<Colon, " ">> \o f[DocKeys[i]] \o <<"\n">>
        ELSE <<>>) \o DumpKeys(f, i + 1)

\* yaml.dump of a mapping
Dump(doc) == IF DOMAIN doc.map = {} THEN sEmptyFlow ELSE DumpKeys(doc.map, 1)

\* the place of the ": " that ends the key of a block mapping line, or 0
EntryIndex(l) ==
  IF \E i \in 1..(Len(l) - 1) : l[i] = Colon /\ l[i+1] = " "
  THEN CHOOSE i \in 1..(Len(l) - 1) :
         /\ l[i] = Colon /\ l[i+1] = " "
         /\ \A j \in 1..(i-1) : ~(l[j] = Colon /\ l[j+1] = " ")
  ELSE 0
Lines(text) == SelectSeq(Split(text, "\n", Len(text)), LAMBDA l : l # <<>>)

\* yaml.safe_load of a text
Load(text) ==
  LET ls == Lines(text)
  IN IF text = sEmptyFlow THEN MapDoc(<<>>)
     ELSE IF ls = <<>> THEN NullDoc
     ELSE IF \A i \in 1..Len(ls) : EntryIndex(ls[i]) > 1
          THEN LET key(l) == SubSeq(l, 1, EntryIndex(l) - 1)
                   value(l) == SubSeq(l, EntryIndex(l) + 2, Len(l))
               IN MapDoc([k \in { key(ls[i]) : i \in 1..Len(ls) } |->
                            value(ls[CHOOSE i \in 1..Len(ls) : key(ls[i]) = k])])
     ELSE IF Len(ls) = 1 /\ EntryIndex(ls[1]) = 0 THEN Doc("str", <<>>, ls[1])
     ELSE Doc("error", <<>>, <<>>)

\* ------------------------------------------------------- façade methods
sGetstate == <<"g","e","t","s","t","a","t","e">>
sGetcapturerate == <<"g","e","t","c","a","p","t","u","r","e","r","a","t","e">>
sGetupdateinterval == <<"g","e","t","u","p","d","a","t","e","i","n","t","e","r","v","a","l">>
sGetconfig == <<"g","e","t","c","o","n","f","i","g">>
sSetconfig == <<"s","e","t","c","o","n","f","i","g">>
sSetconfigname == <<"s","e","t","c","o","n","f","i","g","n","a","m","e">>
sGetBufferLevel == <<"G","e","t","B","u","f","f","e","r","L","e","v","e","l">>
sGetClippedSamples == <<"G","e","t","C","l","i","p","p","e","d","S","a","m","p","l","e","s">>
sIdle == <<"I","D","L","E">>

\* a façade method: its command, the argument it takes and what it makes of
\* the value _query returns
Method(name, command, takes, conv) ==
  [name |-> name, command |-> command, takes |-> takes, conv |-> conv]
NoMethod == Method("none", <<>>, "none", "none")

get_state == Method("get_state", sGetstate, "none", "str")
get_capture_rate_raw == Method("get_capture_rate_raw", sGetcapturerate, "none", "int")
get_capture_rate == Method("get_capture_rate", sGetcapturerate, "none", "rate")
get_update_interval == Method("get_update_interval", sGetupdateinterval, "none", "int")
set_update_interval == Method("set_update_interval", sSetupdateinterval, "int", "none")
stop == Method("stop", sStop, "none", "none")
set_config_name == Method("set_config_name", sSetconfigname, "str", "none")
get_config == Method("get_config", sGetconfig, "none", "yaml")
set_config == Method("set_config", sSetconfig, "doc", "none")
get_buffer_level == Method("get_buffer_level", sGetBufferLevel, "none", "int")
get_clipped_samples == Method("get_clipped_samples", sGetClippedSamples, "none", "int")

FacadeMethods ==
  { get_state, get_capture_rate_raw, get_capture_rate, get_update_interval,
    set_update_interval, stop, set_config_name, get_config, set_config,
    get_buffer_level, get_clipped_samples }

\* what a façade method hands to its caller
FacadeOut(kind, msg, type, i, str, d) ==
  [kind |-> kind, msg |-> msg, type |-> type, i |-> i, s |-> str, d |-> d]
NoFacadeOut == FacadeOut("none", "", "none", 0, <<>>, NullDoc)
RetNone == FacadeOut("ret", "", "none", 0, <<>>, NullDoc)
RetInt(n) == FacadeOut("ret", "", "int", n, <<>>, NullDoc)
RetStr(str) == FacadeOut("ret", "", "str", 0, str, NullDoc)
RetDoc(d) == FacadeOut("ret", "", "doc", 0, <<>>, d)
Raised(kind, msg) == FacadeOut(kind, msg, "none", 0, <<>>, NullDoc)

\* an exception of _query passes through the façade method
Propagate(o) ==
  FacadeOut(o.kind, o.msg, "none", 0, IF o.val = None THEN <<>> ELSE o.val[1], NullDoc)

\* int(value) keeping the text of the payload
IntResultAsText(o) ==
  IF o.val = None THEN Raised("TypeError", "int() argument")
  ELSE RetStr(o.val[1])

\* int(value) of lines 152 and 169: None is no number, nor is every text
IntResult(o) ==
  IF o.val = None THEN Raised("TypeError", "int() argument")
  ELSE LET p == ParseInt(o.val[1])
       IN IF p.ok THEN RetInt(p.i) ELSE Raised("ValueError", "invalid literal for int()")

\* yaml.safe_load(value) of line 233: None has no read
LoadResult(o) ==
  IF o.val = None THEN Raised("AttributeError", "NoneType has no attribute")
  ELSE LET d == Load(o.val[1])
       IN IF d.type = "error" THEN Raised("YAMLError", "") ELSE RetDoc(d)

\* the statements of façade method m after its _query, o being what _query
\* returned or raised
Typed(m, o) ==
  IF o.kind # "ret" THEN Propagate(o)
  ELSE CASE m.conv = "none" -> RetNone
         [] m.conv = "str" -> (IF o.val = None THEN RetNone ELSE RetStr(o.val[1]))
         [] m.conv = "int" -> IntResult(o)
         [] m.conv = "rate" ->
              LET r == IntResult(o)
              IN IF r.kind # "ret" THEN r
                 ELSE LET c == CaptureRate(r.i)
                      IN IF c = None THEN RetNone ELSE RetInt(c[1])
         [] m.conv = "yaml" -> LoadResult(o)

\* the arg façade method m gives _query for the caller's argument a
QueryArg(m, a) == IF m.takes = "doc" THEN StrArg(Dump(a)) ELSE a

\* ----------------------------------------------------------------- state
VARIABLES
  ws,        \* self._ws: the socket held as the handle, or NoSock for None
  wsBy,      \* the statement that assigned self._ws last
  version,   \* self._version: None or Some(tuple of components)
  lock,      \* self._lock: the thread holding it, or NoThread
  sock,      \* every socket create_connection can hand out: unused/open/closed
  pc,        \* per thread: the statement it is about to execute
  op,        \* per thread: the public method it is in
  cmd,       \* per thread: the command argument of _query
  arg,       \* per thread: the arg argument of _query
  out,       \* per thread: the value or exception travelling inside connect,
             \* the exception caught at line 88 inside _query
  sent,      \* per thread: the socket its exchange has sent on, before its recv
  io,        \* the socket call the last step made, NoIo when it made none
  ret,       \* the return the last step made, NoRet when it made none
  pIn,       \* parsing check: what the engine put into the reply
  pRaw,      \* parsing check: the raw reply
  pCmd,      \* parsing check: the request command
  pParsed,   \* parsing check: the result of _parse_response
  pOut,      \* parsing check: the outcome of the classification
  pPc,       \* parsing check: position
  fPc,       \* façade check: position inside the façade call
  fMeth,     \* façade check: the façade method called
  fArg,      \* façade check: the argument the caller gave
  fSent,     \* façade check: the messages the call has sent
  fRaw,      \* façade check: the raw reply received
  fOut,      \* façade check: what the method handed to its caller
  fDoc,      \* façade check: the document last given to set_config
  eConfig,   \* façade check: the config text the engine has stored
  eProper    \* façade check: the engine answered as the protocol says

parseVars == <<pIn, pRaw, pCmd, pParsed, pOut, pPc>>
facadeVars == <<fPc, fMeth, fArg, fSent, fRaw, fOut, fDoc, eConfig, eProper>>
vars == <<ws, wsBy, version, lock, sock, pc, op, cmd, arg, out, sent, io, ret,
          pIn, pRaw, pCmd, pParsed, pOut, pPc,
          fPc, fMeth, fArg, fSent, fRaw, fOut, fDoc, eConfig, eProper>>

NoThread == 0
NoSock == 0

\* one call on the socket library, as the transport sees it
Io(kind, t, s, ok, data) == [op |-> kind, t |-> t, sock |-> s, ok |-> ok, data |-> data]
NoIo == Io("none", NoThread, NoSock, TRUE, <<>>)

\* a public method handing outcome o to its caller from statement at
Returned(t, name, at, c, a, o) ==
  [t |-> t, op |-> name, at |-> at, cmd |-> c, arg |-> a, out |-> o]
NoRet == Returned(NoThread, "none", "none", <<>>, NoArg, NoOut)

\* __init__ (lines 35-43)
SessionInit ==
  /\ ws = NoSock
  /\ wsBy = "init"
  /\ version = None
  /\ lock = NoThread
  /\ sock = [s \in Socks |-> "unused"]
  /\ pc = [t \in Threads |-> "idle"]
  /\ op = [t \in Threads |-> "none"]
  /\ cmd = [t \in Threads |-> <<>>]
  /\ arg = [t \in Threads |-> NoArg]
  /\ out = [t \in Threads |-> NoOut]
  /\ sent = [t \in Threads |-> NoSock]
  /\ io = NoIo
  /\ ret = NoRet

\* a reply as the engine composes it; wf: it has a status and a name
Composed(wf, status, name, payload) ==
  [wf |-> wf, status |-> status, name |-> name, payload |-> payload]

ParseIdle ==
  /\ pIn = Composed(FALSE, <<>>, <<>>, None)
  /\ pRaw = <<>>
  /\ pCmd = <<>>
  /\ pParsed = ParseResponse(<<>>)
  /\ pOut = NoOut
  /\ pPc = "off"

\* the façade check before any call: position pos, nothing stored
FacadeStart(pos) ==
  /\ fPc = pos
  /\ fMeth = NoMethod
  /\ fArg = NoArg
  /\ fSent = <<>>
  /\ fRaw = <<>>
  /\ fOut = NoFacadeOut
  /\ fDoc = NullDoc
  /\ eConfig = None
  /\ eProper = FALSE

Init == SessionInit /\ ParseIdle /\ FacadeStart("off")

\* ------------------------------------------------- a thread's local moves
SetThread(t, npc, nop, ncmd, narg, nout, nsent) ==
  /\ pc' = [pc EXCEPT ![t] = npc]
  /\ op' = [op EXCEPT ![t] = nop]
  /\ cmd' = [cmd EXCEPT ![t] = ncmd]
  /\ arg' = [arg EXCEPT ![t] = narg]
  /\ out' = [out EXCEPT ![t] = nout]
  /\ sent' = [sent EXCEPT ![t] = nsent]

\* go on inside the current call
Goto(t, npc, nout) ==
  /\ SetThread(t, npc, op[t], cmd[t], arg[t], nout, NoSock)
  /\ ret' = NoRet

\* the public method name hands outcome o to its caller from statement at
Finish(t, name, at, c, a, o) ==
  /\ SetThread(t, "idle", "none", <<>>, NoArg, NoOut, NoSock)
  /\ ret' = Returned(t, name, at, c, a, o)

\* an exception leaves _query: into connect's handler, or out to the caller
RaiseFromQuery(t, at, o) ==
  IF op[t] = "connect" THEN Goto(t, "c_except", o)
  ELSE Finish(t, op[t], at, cmd[t], arg[t], o)

\* a value returned by _query goes to line 55, or to the caller
ReturnFromQuery(t, at, o) ==
  IF op[t] = "connect" THEN Goto(t, "c_update", o)
  ELSE Finish(t, op[t], at, cmd[t], arg[t], o)

\* ------------------------------------------------------------- connect
\* line 45: connect() is called; next is the with block of line 50
CallConnect(t) ==
  /\ pc[t] = "idle"
  /\ SetThread(t, "c_open", "connect", <<>>, NoArg, NoOut, NoSock)
  /\ ret' = NoRet
  /\ io' = NoIo
  /\ UNCHANGED <<ws, wsBy, version, lock, sock, parseVars, facadeVars>>

\* lines 50-53: the lock is taken, create_connection is called and the lock
\* is released; on success the new socket becomes the handle and
\* _query("getversion") is entered (line 54); on failure the exception goes
\* to the handler (line 56)
COpen(t) ==
  /\ pc[t] = "c_open"
  /\ lock = NoThread
  /\ \/ \E s \in Socks :
          /\ sock[s] = "unused"
          /\ \A r \in Socks : r < s => sock[r] # "unused"
          /\ sock' = [sock EXCEPT ![s] = "open"]
          /\ ws' = s
          /\ wsBy' = "open"
          /\ io' = Io("open", t, s, TRUE, <<>>)
          /\ Goto(t, "q_check", out[t])
     \/ /\ io' = Io("open", t, NoSock, FALSE, <<>>)
        /\ Goto(t, "c_except", OpenFailed)
        /\ UNCHANGED <<ws, wsBy, sock>>
  /\ UNCHANGED <<version, lock, parseVars, facadeVars>>

\* _update_version splitting on every '.'
UpdateVersionUncapped(resp) == Split(resp, Dot, Len(resp))

\* _update_version (lines 115-116)
UpdateVersion(resp) == Split(resp, Dot, 3)

\* line 55, with the value _query returned; None has no split
CUpdate(t) ==
  /\ pc[t] = "c_update"
  /\ IF out[t].val = None
     THEN /\ Goto(t, "c_except", AttributeError)
          /\ UNCHANGED version
     ELSE /\ version' = Some(UpdateVersion(out[t].val[1]))
          /\ Finish(t, "connect", "c_update", <<>>, NoArg, Ret(None))
  /\ io' = NoIo
  /\ UNCHANGED <<ws, wsBy, lock, sock, parseVars, facadeVars>>

\* lines 56-58: the handler clears the handle and re-raises
CExcept(t) ==
  /\ pc[t] = "c_except"
  /\ ws' = NoSock
  /\ wsBy' = "connect_failed"
  /\ Finish(t, "connect", "c_except", <<>>, NoArg, out[t])
  /\ io' = NoIo
  /\ UNCHANGED <<version, lock, sock, parseVars, facadeVars>>

\* ---------------------------------------------------------- disconnect
\* lines 60-64: disconnect() is called and reads the handle; without one it
\* returns
CallDisconnect(t) ==
  /\ pc[t] = "idle"
  /\ IF ws # NoSock
     THEN /\ SetThread(t, "d_close", "disconnect", <<>>, NoArg, NoOut, NoSock)
          /\ ret' = NoRet
     ELSE Finish(t, "disconnect", "d_check", <<>>, NoArg, Ret(None))
  /\ io' = NoIo
  /\ UNCHANGED <<ws, wsBy, version, lock, sock, parseVars, facadeVars>>

\* disconnect without the try of lines 65-69: a failing close reaches the caller
DCloseRaises(t) ==
  /\ pc[t] = "d_close"
  /\ lock = NoThread
  /\ IF ws = NoSock
     THEN /\ io' = NoIo
          /\ Finish(t, "disconnect", "d_close", <<>>, NoArg, AttributeError)
          /\ UNCHANGED sock
     ELSE \E ok \in BOOLEAN, closed \in BOOLEAN :
            /\ ok => closed
            /\ sock' = [sock EXCEPT ![ws] = IF closed THEN "closed" ELSE @]
            /\ io' = Io("close", t, ws, ok, <<>>)
            /\ IF ok THEN Goto(t, "d_clear", out[t])
               ELSE Finish(t, "disconnect", "d_close", <<>>, NoArg,
                           Out("IOError", "close failed", None))
  /\ UNCHANGED <<ws, wsBy, version, lock, parseVars, facadeVars>>

\* lines 65-69: the lock is taken, self._ws.close() is called and the lock is
\* released; whatever close raises (also the AttributeError of a handle
\* cleared meanwhile) is swallowed. A close that raises may or may not have
\* closed the socket.
DClose(t) ==
  /\ pc[t] = "d_close"
  /\ lock = NoThread
  /\ Goto(t, "d_clear", out[t])
  /\ IF ws = NoSock
     THEN /\ io' = NoIo
          /\ UNCHANGED sock
     ELSE \E ok \in BOOLEAN, closed \in BOOLEAN :
            /\ ok => closed
            /\ sock' = [sock EXCEPT ![ws] = IF closed THEN "closed" ELSE @]
            /\ io' = Io("close", t, ws, ok, <<>>)
  /\ UNCHANGED <<ws, wsBy, version, lock, parseVars, facadeVars>>

\* line 70
DClear(t) ==
  /\ pc[t] = "d_clear"
  /\ ws' = NoSock
  /\ wsBy' = "disconnect"
  /\ Finish(t, "disconnect", "d_clear", <<>>, NoArg, Ret(None))
  /\ io' = NoIo
  /\ UNCHANGED <<version, lock, sock, parseVars, facadeVars>>

\* ------------------------------------------- is_connected, get_version
\* is_connected with the test inverted
IsConnectedInverted(t) ==
  /\ pc[t] = "idle"
  /\ ret' = Returned(t, "is_connected", "is_connected", <<>>, NoArg, RetBool(ws = NoSock))
  /\ io' = NoIo
  /\ UNCHANGED <<ws, wsBy, version, lock, sock, pc, op, cmd, arg, out, sent, parseVars, facadeVars>>

\* lines 72-76: one read of the handle
IsConnected(t) ==
  /\ pc[t] = "idle"
  /\ ret' = Returned(t, "is_connected", "is_connected", <<>>, NoArg, RetBool(ws # NoSock))
  /\ io' = NoIo
  /\ UNCHANGED <<ws, wsBy, version, lock, sock, pc, op, cmd, arg, out, sent, parseVars, facadeVars>>

\* lines 118-120: one read of the stored version
GetVersion(t) ==
  /\ pc[t] = "idle"
  /\ ret' = Returned(t, "get_version", "get_version", <<>>, NoArg, RetVersion(version))
  /\ io' = NoIo
  /\ UNCHANGED <<ws, wsBy, version, lock, sock, pc, op, cmd, arg, out, sent, parseVars, facadeVars>>

\* --------------------------------------------------------------- _query
\* _query raising the lost-connection error where there is no handle
QueryWrongError(t, name, c, a) ==
  /\ IF ws # NoSock
     THEN /\ SetThread(t, "q_send", name, c, a, NoOut, NoSock)
          /\ ret' = NoRet
     ELSE IF name = "connect"
          THEN /\ SetThread(t, "c_except", name, c, a, LostConnection, NoSock)
               /\ ret' = NoRet
          ELSE Finish(t, name, "q_check", c, a, LostConnection)
  /\ io' = NoIo
  /\ UNCHANGED <<ws, wsBy, version, lock, sock, parseVars, facadeVars>>

\* _query(c, a) is entered from the method name: line 79 reads the handle,
\* lines 80-83 build the request, line 104 raises when there is no handle
Query(t, name, c, a) ==
  /\ IF ws # NoSock
     THEN /\ SetThread(t, "q_send", name, c, a, NoOut, NoSock)
          /\ ret' = NoRet
     ELSE IF name = "connect"
          THEN /\ SetThread(t, "c_except", name, c, a, NotConnected, NoSock)
               /\ ret' = NoRet
          ELSE Finish(t, name, "q_check", c, a, NotConnected)
  /\ io' = NoIo
  /\ UNCHANGED <<ws, wsBy, version, lock, sock, parseVars, facadeVars>>

\* a façade method is called and enters _query with its command and argument
CallQuery(t, calls) ==
  /\ pc[t] = "idle"
  /\ \E ca \in calls : Query(t, "query", ca[1], ca[2])

\* line 54: connect enters _query("getversion")
QCheck(t) ==
  /\ pc[t] = "q_check"
  /\ Query(t, "connect", sGetversion, NoArg)

\* lines 85-86: the lock is taken and self._ws.send(query) is called. The
\* handle is read again here; None has no send. A closed socket refuses, an
\* open one may fail. Any exception leaves the with block (the lock is
\* released) for line 88.
QSend(t) ==
  /\ pc[t] = "q_send"
  /\ lock = NoThread
  /\ \/ /\ ws # NoSock
        /\ sock[ws] = "open"
        /\ io' = Io("send", t, ws, TRUE, BuildQuery(cmd[t], arg[t]))
        /\ SetThread(t, "q_recv", op[t], cmd[t], arg[t], out[t], ws)
        /\ ret' = NoRet
        /\ lock' = t
     \/ /\ ws # NoSock
        /\ io' = Io("send", t, ws, FALSE, BuildQuery(cmd[t], arg[t]))
        /\ Goto(t, "q_except", SocketError)
        /\ UNCHANGED lock
     \/ /\ ws = NoSock
        /\ io' = NoIo
        /\ Goto(t, "q_except", AttributeError)
        /\ UNCHANGED lock
  /\ UNCHANGED <<ws, wsBy, version, sock, parseVars, facadeVars>>

\* _query with lines 91-102 inside the try: a rejected reply drops the handle
QRecvDropsHandle(t, replies) ==
  /\ pc[t] = "q_recv"
  /\ lock' = NoThread
  /\ \/ /\ ws # NoSock
        /\ sock[ws] = "open"
        /\ \E rawrepl \in replies[cmd[t]] :
             /\ io' = Io("recv", t, ws, TRUE, rawrepl)
             /\ LET o == QueryResult(cmd[t], rawrepl)
                IN IF o.kind = "ret"
                   THEN ReturnFromQuery(t, "q_recv", o) /\ UNCHANGED <<ws, wsBy>>
                   ELSE RaiseFromQuery(t, "q_recv", o) /\ ws' = NoSock /\ wsBy' = "lost"
     \/ /\ ws # NoSock
        /\ io' = Io("recv", t, ws, FALSE, <<>>)
        /\ Goto(t, "q_except", SocketError)
        /\ UNCHANGED <<ws, wsBy>>
     \/ /\ ws = NoSock
        /\ io' = NoIo
        /\ Goto(t, "q_except", AttributeError)
        /\ UNCHANGED <<ws, wsBy>>
  /\ UNCHANGED <<version, sock, parseVars, facadeVars>>

\* _query releasing the lock by hand after recv(), so not when recv() raises
QRecvKeepsLock(t, replies) ==
  /\ pc[t] = "q_recv"
  /\ \/ /\ ws # NoSock
        /\ sock[ws] = "open"
        /\ lock' = NoThread
        /\ \E rawrepl \in replies[cmd[t]] :
             /\ io' = Io("recv", t, ws, TRUE, rawrepl)
             /\ LET o == QueryResult(cmd[t], rawrepl)
                IN IF o.kind = "ret" THEN ReturnFromQuery(t, "q_recv", o)
                   ELSE RaiseFromQuery(t, "q_recv", o)
     \/ /\ ws # NoSock
        /\ lock' = lock
        /\ io' = Io("recv", t, ws, FALSE, <<>>)
        /\ Goto(t, "q_except", SocketError)
     \/ /\ ws = NoSock
        /\ lock' = lock
        /\ io' = NoIo
        /\ Goto(t, "q_except", AttributeError)
  /\ UNCHANGED <<ws, wsBy, version, sock, parseVars, facadeVars>>

\* line 87 under the lock and, after the lock is released, lines 91-102 on
\* the reply
QRecv(t, replies) ==
  /\ pc[t] = "q_recv"
  /\ lock' = NoThread
  /\ \/ /\ ws # NoSock
        /\ sock[ws] = "open"
        /\ \E rawrepl \in replies[cmd[t]] :
             /\ io' = Io("recv", t, ws, TRUE, rawrepl)
             /\ LET o == QueryResult(cmd[t], rawrepl)
                IN IF o.kind = "ret" THEN ReturnFromQuery(t, "q_recv", o)
                   ELSE RaiseFromQuery(t, "q_recv", o)
     \/ /\ ws # NoSock
        /\ io' = Io("recv", t, ws, FALSE, <<>>)
        /\ Goto(t, "q_except", SocketError)
     \/ /\ ws = NoSock
        /\ io' = NoIo
        /\ Goto(t, "q_except", AttributeError)
  /\ UNCHANGED <<ws, wsBy, version, sock, parseVars, facadeVars>>

\* the handler of line 88 sending the request again instead of raising
QExceptRetries(t) ==
  /\ pc[t] = "q_except"
  /\ Goto(t, "q_send", NoOut)
  /\ io' = NoIo
  /\ UNCHANGED <<ws, wsBy, version, lock, sock, parseVars, facadeVars>>

\* QExcept without line 89: the handle survives the failure
QExceptKeepsHandle(t) ==
  /\ pc[t] = "q_except"
  /\ RaiseFromQuery(t, "q_except", LostConnection)
  /\ io' = NoIo
  /\ UNCHANGED <<ws, wsBy, version, lock, sock, parseVars, facadeVars>>

\* lines 88-90: the handler clears the handle, outside the lock
QExcept(t) ==
  /\ pc[t] = "q_except"
  /\ ws' = NoSock
  /\ wsBy' = "lost"
  /\ RaiseFromQuery(t, "q_except", LostConnection)
  /\ io' = NoIo
  /\ UNCHANGED <<version, lock, sock, parseVars, facadeVars>>

\* ------------------------------------------- the reply parsing on its own
sMixedStop == <<"S","t","o","P">>
sLowerOk == <<"o","k">>
sColonText == <<"a",":","b">>
sColons == <<":",":">>

\* the request commands of the parsing check
ParseCommands == { sStop, sMixedStop, sInvalid }

\* the replies of the parsing check: every status with every name and payload
ParseStatuses == { sOK, sERROR, sLowerOk }
ParseNames == { sStop, Upper(sStop), sMixedStop, Upper(sInvalid), sOther }
ParsePayloads == { None, Some(<<>>), Some(sBad), Some(sColonText), Some(sColons) }
ParseUnframed == { <<>>, sNonsense, sOK }

Compose(c) ==
  IF c.payload = None THEN Reply2(c.status, c.name)
  ELSE Reply3(c.status, c.name, c.payload[1])

InitParse ==
  /\ SessionInit
  /\ \/ \E st \in ParseStatuses, n \in ParseNames, pl \in ParsePayloads :
          /\ pIn = Composed(TRUE, st, n, pl)
          /\ pRaw = Compose(pIn)
     \/ \E raw \in ParseUnframed :
          /\ pIn = Composed(FALSE, <<>>, <<>>, None)
          /\ pRaw = raw
  /\ pCmd \in ParseCommands
  /\ pParsed = ParseResponse(<<>>)
  /\ pOut = NoOut
  /\ pPc = "received"
  /\ FacadeStart("off")

\* line 91: state, cmd, reply = self._parse_response(rawrepl)
PParse ==
  /\ pPc = "received"
  /\ pParsed' = ParseResponse(pRaw)
  /\ pPc' = "parsed"
  /\ UNCHANGED <<ws, wsBy, version, lock, sock, pc, op, cmd, arg, out, sent, io, ret,
                 pIn, pRaw, pCmd, pOut, facadeVars>>

\* lines 91-102: what _query gives its caller for this reply
PClassify ==
  /\ pPc = "parsed"
  /\ pOut' = QueryResult(pCmd, pRaw)
  /\ pPc' = "done"
  /\ UNCHANGED <<ws, wsBy, version, lock, sock, pc, op, cmd, arg, out, sent, io, ret,
                 pIn, pRaw, pCmd, pParsed, facadeVars>>

NextParse == PParse \/ PClassify
SpecParse == InitParse /\ [][NextParse]_vars

\* ------------------------------------- the façade methods on their own
\* one caller on a connected session whose socket does not fail: a façade
\* method is called, its request reaches the engine, the engine's reply is
\* received and the method hands its result to the caller
RateInputs ==
  { 0 - 1, 0, 7199, 7200, 7201, 9512, 9513, 19025, 88250, 92100,
    422399, 422400, 422401 }
CounterInputs == { 0, 7, 1234 }

\* the arguments a caller can give façade method m
ArgsFor(m) ==
  CASE m.takes = "none" -> { NoArg }
    [] m.takes = "int" -> { IntArg(v) : v \in { 0, 5, 0 - 500 } }
    [] m.takes = "str" -> { StrArg(n) : n \in { <<>>, sColonText } }
    [] m.takes = "doc" -> Documents

\* the engine's reading of a request: the command and what follows the
\* first ':'
RequestCommand(msg) == Lower(Split(msg, Colon, 1)[1])
RequestArg(msg) ==
  LET parts == Split(msg, Colon, 1)
  IN IF Len(parts) > 1 THEN Some(parts[2]) ELSE None

\* the config text the engine holds after a request
StoredConfig(msg, stored) ==
  IF RequestCommand(msg) = sSetconfig /\ RequestArg(msg) # None
  THEN RequestArg(msg)
  ELSE stored

\* the replies of an engine that answers request msg as the protocol says,
\* stored being the config text it holds
ProperReplies(msg, stored) ==
  LET c == RequestCommand(msg)
  IN CASE c = sGetconfig ->
            (IF stored = None THEN { Reply2(sERROR, Upper(c)) }
             ELSE { Reply3(sOK, Upper(c), stored[1]) })
       [] c = sGetcapturerate ->
            { Reply3(sOK, Upper(c), FormatArg(IntArg(r))) : r \in RateInputs }
       [] c \in { sGetupdateinterval, Lower(sGetBufferLevel), Lower(sGetClippedSamples) } ->
            { Reply3(sOK, Upper(c), FormatNat(n)) : n \in CounterInputs }
       [] c = sGetstate -> { Reply3(sOK, Upper(c), sIdle) }
       [] OTHER -> { Reply2(sOK, Upper(c)) }

\* what else recv() may hand back
OtherReplies(msg) ==
  LET c == RequestCommand(msg)
  IN { Reply2(sOK, Upper(c)),
       Reply3(sOK, Upper(c), sBad),
       Reply3(sERROR, Upper(c), sBad),
       sNonsense }

InitFacade ==
  /\ SessionInit
  /\ ParseIdle
  /\ FacadeStart("idle")

\* a façade method is called and sends its request (lines 80-86)
FCall ==
  /\ fPc = "idle"
  /\ \E m \in FacadeMethods : \E a \in ArgsFor(m) :
       /\ fMeth' = m
       /\ fArg' = QueryArg(m, a)
       /\ fDoc' = IF m.takes = "doc" THEN a ELSE fDoc
       /\ fSent' = <<BuildQuery(m.command, QueryArg(m, a))>>
  /\ fPc' = "sent"
  /\ fRaw' = <<>>
  /\ fOut' = NoFacadeOut
  /\ eProper' = FALSE
  /\ UNCHANGED <<ws, wsBy, version, lock, sock, pc, op, cmd, arg, out, sent, io, ret,
                 parseVars, eConfig>>

\* the engine takes the request and answers; recv() returns (line 87)
FEngine ==
  /\ fPc = "sent"
  /\ eConfig' = StoredConfig(fSent[1], eConfig)
  /\ \/ /\ fRaw' \in ProperReplies(fSent[1], eConfig')
        /\ eProper' = TRUE
     \/ /\ fRaw' \in OtherReplies(fSent[1]) \ ProperReplies(fSent[1], eConfig')
        /\ eProper' = FALSE
  /\ fPc' = "replied"
  /\ UNCHANGED <<ws, wsBy, version, lock, sock, pc, op, cmd, arg, out, sent, io, ret,
                 parseVars, fMeth, fArg, fSent, fOut, fDoc>>

\* lines 91-102 and the statements of the façade method after its _query
FReturn ==
  /\ fPc = "replied"
  /\ fOut' = Typed(fMeth, QueryResult(fMeth.command, fRaw))
  /\ fPc' = "idle"
  /\ UNCHANGED <<ws, wsBy, version, lock, sock, pc, op, cmd, arg, out, sent, io, ret,
                 parseVars, fMeth, fArg, fSent, fRaw, fDoc, eConfig, eProper>>

NextFacade == FCall \/ FEngine \/ FReturn
SpecFacade == InitFacade /\ [][NextFacade]_vars

\* ------------------------------------------------------ specifications
Step(t, calls, replies) ==
  \/ CallConnect(t)
  \/ COpen(t)
  \/ QCheck(t)
  \/ CUpdate(t)
  \/ CExcept(t)
  \/ CallDisconnect(t)
  \/ DClose(t)
  \/ DClear(t)
  \/ IsConnected(t)
  \/ GetVersion(t)
  \/ CallQuery(t, calls)
  \/ QSend(t)
  \/ QRecv(t, replies)
  \/ QExcept(t)

\* any number of threads on one session
Next == \E t \in Threads : Step(t, ConcurrentCalls, ConcurrentReplies)
Spec == Init /\ [][Next]_vars

\* the steps of thread t inside a call: they need no caller to happen
Progress(t) ==
  \/ COpen(t)
  \/ QCheck(t)
  \/ CUpdate(t)
  \/ CExcept(t)
  \/ DClose(t)
  \/ DClear(t)
  \/ QSend(t)
  \/ QRecv(t, ConcurrentReplies)
  \/ QExcept(t)

\* any number of threads, fairly scheduled: a thread that can go on inside
\* its call again and again does go on (the lock is handed to every waiter
\* in the end, the socket calls return)
SpecLive == Init /\ [][Next]_vars /\ \A t \in Threads : SF_vars(Progress(t))

\* one caller: the calls follow each other
NextSeq == Step(1, SessionCalls, SessionReplies)
SpecSeq == Init /\ [][NextSeq]_vars

\* ================================================================ claims
IsNotConnected(o) == o.kind = "IOError" /\ o.msg = "Not connected to CamillaDSP"
IsLostConnection(o) == o.kind = "IOError" /\ o.msg = "Lost connection to CamillaDSP"
IsInvalidResponse(o) == o.kind = "IOError" /\ o.msg = "Invalid response received"

\* the threads that have sent and not yet reached their receive
InFlight == { t \in Threads : pc[t] = "q_recv" }

\* C1 as stated: with any number of threads, failed exchanges, connects and
\* disconnects interleaved, no send happens while another exchange is in
\* flight, and every successful send is followed, as the sender's next step, by
\* the sender's receive on the socket it sent on.
C1_SendThenOwnRecv ==
  [][ /\ (io'.op = "send" /\ io'.ok) => (InFlight \subseteq {io'.t})
      /\ \A t \in Threads :
           (pc[t] = "q_recv" /\ pc'[t] # "q_recv")
             => (io'.op = "recv" /\ io'.t = t /\ io'.sock = sent[t]) ]_vars

\* C2 as stated: whenever the handle is absent, every capability method
\* (the exchange-based ones and the version accessor alike) fails with
\* "not connected", makes no socket call and changes nothing of the session.
C2_AnyCapabilityFailsWhenDisconnected ==
  [][ \A t \in Threads :
        (ws = NoSock /\ pc[t] = "idle")
          => /\ pc'[t] # "q_send"
             /\ (ret'.t = t /\ ret'.op \in {"query", "get_version"})
                  => /\ IsNotConnected(ret'.out)
                     /\ io' = NoIo
                     /\ UNCHANGED <<ws, version, lock, sock>> ]_vars

\* C2 amended: whenever the handle is absent (never connected, after
\* disconnect, after a failed connect, after a lost connection), every
\* capability method that performs an exchange fails with "not connected",
\* makes no socket call and changes nothing of the session; get_version is
\* the exception, it returns the stored version.
C2_ExchangeFailsWhenDisconnected ==
  [][ \A t \in Threads :
        (ws = NoSock /\ pc[t] = "idle")
          => /\ pc'[t] # "q_send"
             /\ (ret'.t = t /\ ret'.op = "query")
                  => /\ IsNotConnected(ret'.out)
                     /\ io' = NoIo
                     /\ UNCHANGED <<ws, version, lock, sock>> ]_vars

\* a façade call has just failed with "not connected" after a disconnect
C2_Witness ==
  /\ ret.op = "query"
  /\ IsNotConnected(ret.out)
  /\ wsBy = "disconnect"
  /\ ws = NoSock

\* the step in which thread t's send or receive on the socket fails
SocketFailure(t) == io'.t = t /\ io'.op \in {"send", "recv"} /\ ~io'.ok

\* C3 as stated: a failed send or receive ends the exchange with "lost
\* connection" and the handle cleared, and from then on every call of every
\* method fails with "not connected" until a connect opens a socket again.
C3_EveryMethodFailsAfterLoss ==
  [][ /\ \A t \in Threads : SocketFailure(t) => pc'[t] = "q_except"
      /\ \A t \in Threads :
           (pc[t] = "q_except" /\ pc'[t] # "q_except")
             => /\ ws' = NoSock
                /\ IF op[t] = "connect" THEN IsLostConnection(out'[t])
                   ELSE ret'.t = t /\ IsLostConnection(ret'.out)
      /\ \A t \in Threads :
           (wsBy = "lost" /\ pc[t] = "idle")
             => /\ pc'[t] # "q_send"
                /\ ret'.t = t => (IsNotConnected(ret'.out) /\ io' = NoIo)
      /\ (ws = NoSock /\ ws' # NoSock) => (io'.op = "open" /\ io'.ok) ]_vars

\* C3 amended: a failed send or receive (either one) ends the exchange with
\* "lost connection" and the handle cleared; from then on every call that
\* performs an exchange fails with "not connected" and makes no socket call,
\* and the handle comes back only by the open of a connect(). is_connected,
\* disconnect and get_version do not fail in that state.
C3_ExchangeFailsAfterLoss ==
  [][ /\ \A t \in Threads : SocketFailure(t) => pc'[t] = "q_except"
      /\ \A t \in Threads :
           (pc[t] = "q_except" /\ pc'[t] # "q_except")
             => /\ ws' = NoSock
                /\ IF op[t] = "connect" THEN IsLostConnection(out'[t])
                   ELSE ret'.t = t /\ IsLostConnection(ret'.out)
      /\ \A t \in Threads :
           (wsBy = "lost" /\ pc[t] = "idle")
             => /\ pc'[t] # "q_send"
                /\ (ret'.t = t /\ ret'.op = "query")
                     => (IsNotConnected(ret'.out) /\ io' = NoIo)
      /\ (ws = NoSock /\ ws' # NoSock) => (io'.op = "open" /\ io'.ok) ]_vars

\* an exchange has just failed with "not connected" on a session whose
\* connection was lost to a socket failure
C3_Witness ==
  /\ ret.op = "query"
  /\ IsNotConnected(ret.out)
  /\ wsBy = "lost"
  /\ sock[1] = "open"

\* C4 as stated: a connect() that fails, for whatever cause, raises an IOError
\* and leaves the handle absent.
C4_ConnectFailsWithIOError ==
  (ret.op = "connect" /\ ret.out.kind # "ret")
    => (ret.out.kind = "IOError" /\ ws = NoSock)

\* C5: with one caller making any sequence of calls, the handle is present
\* when a connect() returns normally and absent when a disconnect() returns;
\* an is_connected() called right after a successful connect() returns true,
\* right after a disconnect() false, and is_connected() makes no socket call
\* and changes nothing.
C5_IsConnectedFollowsConnectDisconnect ==
  [][ /\ (ret'.op = "connect" /\ ret'.out.kind = "ret") => ws' # NoSock
      /\ ret'.op = "disconnect" => ws' = NoSock
      /\ ret'.op = "is_connected"
           => /\ io' = NoIo
              /\ UNCHANGED <<ws, version, lock, sock, pc>>
              /\ (ret.op = "connect" /\ ret.out.kind = "ret") => ret'.out.msg = "True"
              /\ ret.op = "disconnect" => ret'.out.msg = "False" ]_vars

\* is_connected() has answered true on the second connection of the session,
\* the first one having been closed by a disconnect
C5_Witness ==
  /\ ret.op = "is_connected"
  /\ ret.out.msg = "True"
  /\ ws = 2
  /\ sock[1] = "closed"

\* C6: disconnect() always returns normally with the handle absent; called
\* without a handle it returns at once, making no socket call and changing
\* nothing; called with a handle it makes exactly one close call, on the
\* socket held, and clears the handle whether or not that close failed.
C6_DisconnectNeverRaises ==
  [][ \A t \in Threads :
        /\ (ret'.op = "disconnect" /\ ret'.t = t)
             => (ret'.out.kind = "ret" /\ ret'.out.val = None /\ ws' = NoSock)
        /\ (ret'.op = "disconnect" /\ ret'.t = t /\ pc[t] = "idle")
             => (ws = NoSock /\ io' = NoIo /\ UNCHANGED <<ws, version, lock, sock>>)
        /\ (pc[t] = "idle" /\ pc'[t] = "d_close") => (ws # NoSock /\ io' = NoIo)
        /\ (pc[t] = "d_close" /\ pc'[t] # "d_close")
             => /\ ws # NoSock
                /\ io'.op = "close" /\ io'.t = t /\ io'.sock = ws
                /\ pc'[t] = "d_clear"
        /\ (io'.op = "close" /\ io'.t = t) => pc[t] = "d_close"
        /\ (pc[t] = "d_clear" /\ pc'[t] # "d_clear")
             => (ret'.op = "disconnect" /\ ret'.t = t /\ ws' = NoSock) ]_vars

\* a disconnect() has returned with the handle cleared although its close
\* failed and left the socket open
C6_Witness ==
  /\ ret.op = "disconnect"
  /\ ret.at = "d_clear"
  /\ ws = NoSock
  /\ sock[1] = "open"

\* the classification of the parsing check's reply by the table of the
\* specification: a payload is present when the reply has a third part
Table(command, c) ==
  LET match == Lower(c.name) = Lower(command)
  IN IF c.status = sOK /\ match THEN Ret(c.payload)
     ELSE IF c.status = sERROR /\ (match \/ Lower(c.name) = sInvalid)
          THEN (IF c.payload # None THEN CamillaErrorMsg(c.payload[1])
                ELSE CamillaErrorGeneric)
     ELSE InvalidResponse

\* C7 as stated: for every request command and every reply composed of a
\* status, an echoed name and an optional payload, the exchange gives what
\* the table gives: the payload when one is present (no value otherwise) for
\* OK with a matching name, a Protocol Error carrying the payload when one is
\* present (the generic message otherwise) for ERROR with a matching or
\* catch-all name, and "invalid response" for everything else.
C7_ClassificationTable ==
  (pPc = "done" /\ pIn.wf) => pOut = Table(pCmd, pIn)

\* the table with an empty payload counted as no payload
HasPayload(c) == c.payload # None /\ c.payload[1] # <<>>
TableNonEmpty(command, c) ==
  LET match == Lower(c.name) = Lower(command)
  IN IF c.status = sOK /\ match
     THEN (IF HasPayload(c) THEN Ret(c.payload) ELSE Ret(None))
     ELSE IF c.status = sERROR /\ (match \/ Lower(c.name) = sInvalid)
          THEN (IF HasPayload(c) THEN CamillaErrorMsg(c.payload[1])
                ELSE CamillaErrorGeneric)
     ELSE InvalidResponse

\* C7 amended: the table holds with "payload present" read as "payload
\* present and not empty": OK with a matching name returns the payload when
\* it is not empty and no value otherwise; ERROR with a matching or catch-all
\* name (compared lower-cased) gives a Protocol Error carrying the payload
\* when it is not empty and the generic message otherwise; every other
\* status or name gives "invalid response".
C7_ClassificationTableNonEmpty ==
  (pPc = "done" /\ pIn.wf) => pOut = TableNonEmpty(pCmd, pIn)

\* an OK reply with a matching name and an empty payload has been classified
\* and gave no value
C7_Witness ==
  /\ pPc = "done"
  /\ pIn.wf
  /\ pIn.status = sOK
  /\ Lower(pIn.name) = Lower(pCmd)
  /\ pIn.payload = Some(<<>>)
  /\ pOut.kind = "ret"
  /\ pOut.val = None

\* C8 as stated: a reply received without any ':' makes the exchange fail
\* with the IOError "invalid response", the handle staying in place.
C8_UnframedReplyIsInvalidResponse ==
  (ret.op = "query" /\ ret.at = "q_recv" /\ io.op = "recv" /\ io.ok
     /\ FirstIndex(io.data, Colon) = 0)
    => (IsInvalidResponse(ret.out) /\ ws # NoSock)

\* the outcome thread t's _query has just produced
QueryOutcome(t) == IF op[t] = "connect" THEN out'[t] ELSE ret'.out

\* C9: the step in which an exchange receives a reply that it rejects with
\* "invalid response" or with a Protocol Error changes nothing of the
\* connection: the handle is still the socket the request was sent on, that
\* socket is still open, no socket is closed; and every send goes to the
\* socket held as the handle, so the next exchange uses that same connection.
C9_RejectedReplyKeepsConnection ==
  [][ /\ \A t \in Threads :
           (pc[t] = "q_recv" /\ io'.op = "recv" /\ io'.ok /\ io'.t = t
              /\ (QueryOutcome(t).kind = "CamillaError"
                    \/ IsInvalidResponse(QueryOutcome(t))))
             => /\ ws' = ws /\ ws = sent[t]
                /\ sock' = sock /\ sock[ws] = "open"
                /\ version' = version
      /\ io'.op = "send" => (io'.sock = ws /\ ws' = ws) ]_vars

\* an exchange has just been rejected with a Protocol Error and the handle
\* is still the open socket
C9_Witness ==
  /\ ret.op = "query"
  /\ ret.out.kind = "CamillaError"
  /\ ws # NoSock
  /\ sock[ws] = "open"

\* C10: for every reply composed as STATUS:COMMAND:REST, _parse_response
\* gives STATUS, COMMAND lower-cased and REST verbatim with every ':' in it;
\* for a reply composed as STATUS:COMMAND it gives no payload.
C10_SplitOnFirstTwoColons ==
  (pPc # "received" /\ pIn.wf)
    => pParsed = [ok |-> TRUE, state |-> pIn.status,
                  command |-> Lower(pIn.name), reply |-> pIn.payload]

\* a reply with a mixed-case name and a payload holding a ':' has been parsed
C10_Witness ==
  /\ pPc = "parsed"
  /\ pIn.wf
  /\ pIn.name = sMixedStop
  /\ pIn.payload = Some(sColonText)

\* the request the claim expects for façade method m and _query argument a
ExpectedRequest(m, a) ==
  IF a.type = "none" THEN m.command
  ELSE m.command \o <<Colon>> \o FormatArg(a)

\* C11 as stated: whatever the command and the argument value (the integer 0
\* and the empty string included), the call sends exactly one message,
\* COMMAND:ARGUMENT when an argument is given and COMMAND when none is.
C11_SendsCommandAndArgument ==
  fMeth # NoMethod => fSent = <<ExpectedRequest(fMeth, fArg)>>

\* the integer the engine reported in the reply received
ReportedInt == ParseInt(ParseResponse(fRaw).reply[1]).i

\* the place in standard_rates of the rate nearest to r, the earliest of two
\* equally near
NearestIndex(r) ==
  CHOOSE i \in 1..Len(standard_rates) :
    \A j \in 1..Len(standard_rates) :
      \/ Abs(standard_rates[i] - r) < Abs(standard_rates[j] - r)
      \/ (Abs(standard_rates[i] - r) = Abs(standard_rates[j] - r) /\ i <= j)

\* C12 as stated: for a raw rate r, get_capture_rate gives no value unless
\* 7200 < r < 422400, and otherwise the standard rate nearest to r, the
\* earliest in the list when two are equally near.
C12_CaptureRateSnapped ==
  (fPc = "idle" /\ fMeth = get_capture_rate /\ eProper)
    => fOut = IF 7200 < ReportedInt /\ ReportedInt < 422400
              THEN RetInt(standard_rates[NearestIndex(ReportedInt)])
              ELSE RetNone

\* C13: against an engine that keeps the text given to setconfig and sends
\* it back as the payload of getconfig, a get_config() after a
\* set_config(D) returns a document equal to D, the ':' of the serialized
\* text notwithstanding.
C13_ConfigRoundTrip ==
  (fPc = "idle" /\ fMeth = get_config /\ eProper /\ fDoc.type = "map")
    => fOut = RetDoc(fDoc)

\* get_config() has returned a two-entry document, whose text holds two ':'
C13_Witness ==
  /\ fPc = "idle"
  /\ fMeth = get_config
  /\ eProper
  /\ fDoc.type = "map"
  /\ Cardinality(DOMAIN fDoc.map) = 2
  /\ fOut.type = "doc"
  /\ FirstIndex(eConfig[1], Colon) # 0

C17_OnlyTransportOrProtocolErrors ==
  fOut.kind \in {"none", "ret", "IOError", "CamillaError"}

\* C14: the handle goes from absent to present only by the open of a
\* connect() that a caller has called; a socket is opened only there; and an
\* exchange, once entered, makes at most one send and after it at most one
\* receive, never going back to either, whatever the outcome.
C14_NoReconnectNoRetry ==
  [][ /\ (ws = NoSock /\ ws' # NoSock) => (io'.op = "open" /\ io'.ok)
      /\ io'.op = "open"
           => (pc[io'.t] = "c_open" /\ op[io'.t] = "connect")
      /\ io'.op = "send"
           => (pc[io'.t] = "q_send" /\ pc'[io'.t] \in {"q_recv", "q_except"})
      /\ io'.op = "recv"
           => (pc[io'.t] = "q_recv" /\ pc'[io'.t] \notin {"q_send", "q_recv"})
      /\ \A t \in Threads :
           \/ pc'[t] = pc[t]
           \/ CASE pc'[t] = "c_open" -> pc[t] = "idle"
                [] pc'[t] = "q_check" -> pc[t] = "c_open"
                [] pc'[t] = "q_send" -> pc[t] \in {"idle", "q_check"}
                [] pc[t] = "q_except" -> pc'[t] \in {"idle", "c_except"}
                [] OTHER -> TRUE ]_vars

\* an exchange has ended with "lost connection" after a failed socket call,
\* the handle is absent and the socket was left as it was
C14_Witness ==
  /\ ret.op = "query"
  /\ ret.at = "q_except"
  /\ IsLostConnection(ret.out)
  /\ ws = NoSock
  /\ sock[1] = "open"

s0 == <<"0">>
s1 == <<"1">>
s2 == <<"2">>
s3 == <<"3">>
s4dot5 == <<"4",".","5">>

\* C15: get_version() makes no socket call, changes nothing and returns the
\* stored version, which is absent until a connect() returns normally and
\* is set, by the step in which a connect() returns normally, to the payload
\* of the version reply split on '.' into at most 4 components: "0.3.2"
\* gives ('0','3','2'), "1.2.3.4.5" gives ('1','2','3','4.5').
C15_VersionAccessor ==
  [][ /\ ret'.op = "get_version"
           => /\ io' = NoIo
              /\ UNCHANGED <<ws, version, lock, sock, pc>>
              /\ ret'.out.kind = "ret"
              /\ ret'.out.ver = version
      /\ (ret'.op = "connect" /\ ret'.out.kind = "ret")
           => /\ out[ret'.t].val \in {Some(sVers), Some(sLongVers)}
              /\ out[ret'.t].val = Some(sVers) => version' = Some(<<s0, s3, s2>>)
              /\ out[ret'.t].val = Some(sLongVers)
                   => version' = Some(<<s1, s2, s3, s4dot5>>)
      /\ version' # version => (ret'.op = "connect" /\ ret'.out.kind = "ret") ]_vars

\* get_version() has returned the four components of the version 1.2.3.4.5
C15_Witness ==
  /\ ret.op = "get_version"
  /\ ret.out.ver = Some(<<s1, s2, s3, s4dot5>>)

\* the session is settled on a connection: the handle is present, no
\* connect() and no disconnect() is under way, and no exchange is about to
\* handle a send or receive that failed on a socket
Settled ==
  /\ ws # NoSock
  /\ \A u \in Threads :
       /\ op[u] \notin {"connect", "disconnect"}
       /\ ~(pc[u] = "q_except" /\ out[u] = SocketError)

\* C18 as stated: a session settled on a connection (its connect() has
\* returned, no disconnect() has been called since, no send or receive on
\* its socket has failed) keeps its handle.
C18_StaysConnected == [][Settled => ws' = ws]_vars

\* C19 as stated: every socket the session has opened and not closed is the
\* one held as the handle; so at most one is open, and none when the
\* session is disconnected.
C19_OnlyHandleSocketOpen ==
  \A s \in Socks : sock[s] = "open" => ws = s

\* the guard is held by a thread only between its send and its receive
LockHeldInExchange ==
  \A t \in Threads : lock = t => pc[t] = "q_recv"

\* some thread inside a call can go on
CanProgress ==
  (\E t \in Threads : pc[t] # "idle") => (\E t \in Threads : ENABLED Progress(t))

\* C20: the guard is free whenever no thread is between its send and its
\* receive, it is taken only when free, a state in which threads are inside
\* calls always has a step of one of them, and under fair scheduling every
\* call returns.
C20_EveryCallReturns ==
  /\ [](LockHeldInExchange /\ lock \in Threads \cup {NoThread} /\ CanProgress)
  /\ [][lock' # lock => (lock = NoThread \/ lock' = NoThread)]_vars
  /\ \A t \in Threads : (pc[t] # "idle") ~> (pc[t] = "idle")

\* a thread is waiting for the guard that another thread holds during its
\* exchange
C20_Witness ==
  /\ lock = 1
  /\ pc[1] = "q_recv"
  /\ pc[2] \in {"q_send", "c_open", "d_close"}

====
